---- MODULE Spec2Model ----
(***************************************************************************)
(* Request handlers of the openGauss MCP server (src/server.py).           *)
(*                                                                         *)
(* Seven operations are registered with the protocol runtime: three        *)
(* resources (get_schemas, get_tables, get_table_definitions) and four     *)
(* tools (execute_query, list_tables_in_current_schema,                    *)
(* get_table_definition, get_current_user_and_schema).  Every handler      *)
(* reads the process environment (get_db_config), opens a psycopg2         *)
(* connection inside a `with connect ... as conn` block, runs its          *)
(* statements on a cursor and returns text or raises.                      *)
(*                                                                         *)
(* The database and the driver are the environment of the handlers: a      *)
(* driver call either succeeds or raises psycopg2.Error, and what a        *)
(* successful statement returns is chosen by the database.  The psycopg2   *)
(* connection context manager commits when the block is left normally and  *)
(* rolls back when it is left by an exception; it does not close the       *)
(* connection.  A connection object is closed when the interpreter         *)
(* reclaims it, which happens at some point after the handler's frame is   *)
(* gone (Finalize).                                                        *)
(*                                                                         *)
(* A handler is modelled one driver call per step.  Spec runs one handler   *)
(* at a time, with the environment changing freely; SpecInterleaved        *)
(* interleaves two execute_query handlers at every driver call.            *)
(* OPENGAUSS_HOST is read by get_db_config but decides nothing and is      *)
(* left at its default.                                                    *)
(***************************************************************************)
EXTENDS Integers, Sequences, FiniteSets, TLC

VARIABLES env, call, conns, committed, nextId

vars == <<env, call, conns, committed, nextId>>

(* ------------------------------ bounds -------------------------------- *)

\* Handler invocations in one behaviour.
MaxCalls == 2
\* Tables the catalog lists to get_table_definitions.
MaxTables == 2
\* Cap on the per-call connect/execute counters (the handlers stay below it).
MaxAttempts == 2

\* Handler invocations the runtime has in flight at once.
Slots == {"a", "b"}

(* --------------------------- text helpers ----------------------------- *)

\* str.join: the items of seq separated by sep.
RECURSIVE Join(_, _)
Join(sep, seq) ==
  IF seq = <<>> THEN ""
  ELSE IF Len(seq) = 1 THEN seq[1]
  ELSE seq[1] \o sep \o Join(sep, Tail(seq))

\* Database values: integers, text and SQL NULL (Python None).
IntV(i) == [t |-> "int", i |-> i, s |-> ""]
TextV(s) == [t |-> "str", i |-> 0, s |-> s]
NullV == [t |-> "null", i |-> 0, s |-> ""]

\* str(value), as map(str, row) and the f-strings apply it.
Str(v) ==
  CASE v.t = "int" -> ToString(v.i)
    [] v.t = "str" -> v.s
    [] OTHER -> "None"

MapSeq(Op(_), seq) == [i \in DOMAIN seq |-> Op(seq[i])]

\* Python's str.isspace on the characters used here.
IsSpace(ch) == ch \in {" ", "\t", "\n"}

\* str.strip(): drop leading and trailing whitespace.
RECURSIVE LStrip(_)
LStrip(s) == IF s # <<>> /\ IsSpace(s[1]) THEN LStrip(Tail(s)) ELSE s

RECURSIVE RStrip(_)
RStrip(s) ==
  IF s # <<>> /\ IsSpace(s[Len(s)]) THEN RStrip(SubSeq(s, 1, Len(s) - 1)) ELSE s

strip(s) == RStrip(LStrip(s))

\* str.upper() on the letters that occur in the query texts.
UpperChar(ch) ==
  CASE ch = "s" -> "S" [] ch = "e" -> "E" [] ch = "l" -> "L"
    [] ch = "c" -> "C" [] ch = "t" -> "T" [] ch = "f" -> "F"
    [] OTHER -> ch

upper(s) == [i \in DOMAIN s |-> UpperChar(s[i])]

\* str.startswith(prefix).
startswith(s, prefix) ==
  Len(s) >= Len(prefix) /\ SubSeq(s, 1, Len(prefix)) = prefix

SELECT == <<"S", "E", "L", "E", "C", "T">>

\* The test execute_query applies to the caller's text.
IsSelectText(text) == startswith(upper(strip(text)), SELECT)

(* ---------------------------- environment ----------------------------- *)

\* An environment variable is <<>> when unset and <<value>> when set.
Unset == <<>>
SetTo(v) == <<v>>

UserValues == {Unset, SetTo(""), SetTo("gauss")}
PasswordValues == {Unset, SetTo("pw")}
DbnameValues == {SetTo(""), SetTo("db")}
\* OPENGAUSS_PORT as a string of characters: unset, digits, or not a number.
PortValues == {Unset, SetTo(<<"7", "0">>), SetTo(<<"x">>)}

Envs ==
  [user : UserValues, password : PasswordValues, dbname : DbnameValues,
   port : PortValues]

EnvValues(name) ==
  CASE name = "user" -> UserValues
    [] name = "password" -> PasswordValues
    [] name = "dbname" -> DbnameValues
    [] OTHER -> PortValues

\* os.getenv(name, default).
getenv(e, name, default) == IF e[name] = Unset THEN default ELSE e[name][1]

Digits == {"0", "1", "2", "3", "4", "5", "6", "7", "8", "9"}

DigitVal(ch) ==
  CASE ch = "0" -> 0 [] ch = "1" -> 1 [] ch = "2" -> 2 [] ch = "3" -> 3
    [] ch = "4" -> 4 [] ch = "5" -> 5 [] ch = "6" -> 6 [] ch = "7" -> 7
    [] ch = "8" -> 8 [] OTHER -> 9

IsInt(s) == s # <<>> /\ \A i \in DOMAIN s : s[i] \in Digits

\* int(s) for a string of decimal digits.
RECURSIVE int(_)
int(s) ==
  IF s = <<>> THEN 0 ELSE 10 * int(SubSeq(s, 1, Len(s) - 1)) + DigitVal(s[Len(s)])

DefaultPort == <<"5", "4", "3", "2">>

\* Truthiness of an optional string: None and "" are false.
Truthy(o) == o # Unset /\ o[1] # ""

NoConfig == [port |-> 0, user |-> Unset, password |-> Unset, dbname |-> Unset]

NoError == [type |-> "", msg |-> ""]

\* get_db_config(): the five values read from the environment, or the
\* ValueError raised by int() or by the completeness test.
ReadConfig(e) ==
  IF ~IsInt(getenv(e, "port", DefaultPort))
  THEN [ok |-> FALSE, config |-> NoConfig,
        exc |-> [type |-> "ValueError", msg |-> "invalid literal for int() with base 10"]]
  ELSE IF ~(Truthy(e.user) /\ Truthy(e.password) /\ Truthy(e.dbname))
  THEN [ok |-> FALSE, config |-> NoConfig,
        exc |-> [type |-> "ValueError", msg |-> "Missing required database configuration"]]
  ELSE [ok |-> TRUE,
        config |-> [port |-> int(getenv(e, "port", DefaultPort)), user |-> e.user,
                    password |-> e.password, dbname |-> e.dbname],
        exc |-> NoError]

\* get_db_config without the completeness test (a plausible slip).
ReadConfigUnchecked(e) ==
  IF ~IsInt(getenv(e, "port", DefaultPort))
  THEN ReadConfig(e)
  ELSE [ok |-> TRUE,
        config |-> [port |-> int(getenv(e, "port", DefaultPort)), user |-> e.user,
                    password |-> e.password, dbname |-> e.dbname],
        exc |-> NoError]

\* The environment as it was when the module was imported.
ImportEnv ==
  [user |-> SetTo("gauss"), password |-> SetTo("pw"), dbname |-> SetTo("db"),
   port |-> Unset]

\* get_db_config answering from values read once at import (a plausible slip).
get_db_config_cached(e) == ReadConfig(ImportEnv)

get_db_config(e) == ReadConfig(e)

(* --------------------------- the database ----------------------------- *)

\* Caller texts for execute_query with what the database does with each:
\* rows = the statement produces a result set, writes = it changes data,
\* valid = the server accepts it.
Queries ==
  << [text |-> <<"S", "E", "L", "E", "C", "T", " ", "1">>,
      rows |-> TRUE, writes |-> FALSE, valid |-> TRUE],
     [text |-> <<" ", "s", "e", "l", "e", "c", "t", " ", "f", "(", ")", "\n">>,
      rows |-> TRUE, writes |-> TRUE, valid |-> TRUE],
     [text |-> <<"S", "E", "L", "E", "C", "T", " ", "1", " ", "I", "N", "T", "O", " ", "t">>,
      rows |-> FALSE, writes |-> TRUE, valid |-> TRUE],
     [text |-> <<"I", "N", "S", "E", "R", "T">>,
      rows |-> FALSE, writes |-> TRUE, valid |-> TRUE],
     [text |-> <<"V", "A", "L", "U", "E", "S", " ", "(", "1", ")">>,
      rows |-> TRUE, writes |-> FALSE, valid |-> TRUE],
     [text |-> <<"S", "E", "L", "E", "C", "T", "!">>,
      rows |-> FALSE, writes |-> FALSE, valid |-> FALSE] >>

Ops ==
  {"get_schemas", "get_tables", "get_table_definitions", "execute_query",
   "list_tables_in_current_schema", "get_table_definition",
   "get_current_user_and_schema"}

\* Messages of the psycopg2.Error a driver call can raise.
ConnectErrors == {"connection refused"}
StatementErrors == {"syntax error", "server closed the connection"}
CommitErrors == {"server closed the connection"}

\* cursor.description and the rows of an execute_query result set.
QueryColumns == <<"id", "name">>
QueryRowSets ==
  { <<>>,
    << <<IntV(2), TextV("b")>>, <<IntV(1), NullV>> >> }

\* Row counts the server reports for a statement without a result set.
RowCounts == {0, 1}

SchemaRowSets == { <<>>, << <<TextV("public")>>, <<TextV("gauss")>> >> }
TableRowSets == { <<>>, << <<TextV("public"), TextV("t")>> >> }
IdentityRows == { <<TextV("gauss"), TextV("public")>>, <<TextV("gauss"), NullV>> }
ColumnRowSets ==
  { <<>>, << <<TextV("x"), TextV("integer"), NullV, TextV("YES"), IntV(1)>> >> }

TableNames == <<"t1", "t2", "t3", "t4">>
\* What pg_tables lists for the current schema: up to MaxTables names.
TableLists == { SubSeq(TableNames, 1, n) : n \in 0..MaxTables }

\* A connection (with its one cursor) as the driver and the server hold it.
\* status: "ready" (no transaction), "begin" (in a transaction), "closed".
\* pending: the calls whose uncommitted writes the transaction holds.
NewConnection(owner) ==
  [owner |-> owner, status |-> "ready", pending |-> <<>>, cursor |-> "open"]

Count(seq, x) == Cardinality({i \in DOMAIN seq : seq[i] = x})

Ids == 1..MaxCalls

\* COMMIT on connection cn: its pending writes become visible.
CommitTx(comm, cn) == [i \in DOMAIN comm |-> comm[i] + Count(cn.pending, i)]
Committed(cn) == [cn EXCEPT !.status = "ready", !.pending = <<>>]
\* ROLLBACK, or the server aborting the transaction.
RolledBack(cn) == [cn EXCEPT !.status = "ready", !.pending = <<>>]

(* ------------------------- results and errors ------------------------- *)

Return(text) == [kind |-> "return", exc |-> "", text |-> text]
Raise(type, msg) == [kind |-> "raise", exc |-> type, text |-> msg]
NoOutcome == [kind |-> "", exc |-> "", text |-> ""]

DriverError(msg) == [type |-> "Error", msg |-> msg]

\* The except clauses all raising, execute_query's included.
OnErrorAlwaysRaise(op, msg) == Raise("RuntimeError", "Database error: " \o msg)

\* The except clauses all answering with text.
OnErrorAlwaysReturn(op, msg) == Return("Error executing query: " \o msg)

\* `except Error as e`: execute_query answers with text, the others raise.
OnError(op, msg) ==
  IF op = "execute_query"
  THEN Return("Error executing query: " \o msg)
  ELSE Raise("RuntimeError", "Database error: " \o msg)

\* The header line and the rows of an execute_query result set.
FormatRows(columns, rows) ==
  Join("\n", <<Join(",", columns)>>
             \o [i \in DOMAIN rows |-> Join(",", MapSeq(Str, rows[i]))])

RowsAffected(n) == "Query executed successfully. Rows affected: " \o ToString(n)

FormatSchemas(dbname, rows) ==
  Join(", ", <<"Schemas in database " \o dbname \o ":">>
             \o [i \in DOMAIN rows |-> rows[i][1].s])

FormatTables(dbname, rows) ==
  Join(", ", <<"Tables in database " \o dbname \o ":">>
             \o [i \in DOMAIN rows |-> Str(rows[i][1]) \o "." \o Str(rows[i][2])])

ColumnHeader == "column_name, data_type, column_default, is_nullable, ordinal_position"

\* One table's block: title, header, a line per column.
FormatDefinition(table, coldefs) ==
  Join("\n", <<"Definition of table " \o table \o ":", ColumnHeader>>
             \o [i \in DOMAIN coldefs |-> Join(",", MapSeq(Str, coldefs[i]))])

FormatTableList(names) == Join("\n", <<"Tables in current schema:">> \o names)

FormatIdentity(row) ==
  "current user is " \o Str(row[1]) \o ", current schema is " \o Str(row[2])

(* ----------------------------- the calls ------------------------------ *)

\* A handler invocation: its position, arguments, locals and, once it has
\* ended, its outcome.  nConnect and nExecute count the connect() calls and
\* the submissions of the call's first statement; e is the exception raised
\* inside the try block, if any.
Idle ==
  [pc |-> "idle", op |-> "", query |-> 0, table |-> "", id |-> 0,
   cfg |-> NoConfig, conn |-> 0, tables |-> <<>>, all_defs |-> <<>>,
   columns |-> <<>>, rows |-> <<>>, rowcount |-> -1,
   result |-> "", outcome |-> NoOutcome, nConnect |-> 0, nExecute |-> 0,
   e |-> NoError]

\* The handler using whichever connection was opened last (a module-level
\* connection shared by the handlers).
LastConn(c) == Len(conns)

\* The connection a handler's statements run on: its own local `conn`.
ConnOf(c) == call[c].conn

\* The connection context manager always rolling back.
TxAlwaysRollback(raised) == "rollback"

\* Connection __exit__: commit on a normal exit, rollback on an exception.
TxOnExit(raised) == IF raised THEN "rollback" ELSE "commit"

\* An exception leaving the handler's try block, the failed body run again
\* while attempts remain.
UnwindRetry(rec, exc) ==
  IF exc.type = "Error" /\ rec.nConnect < MaxAttempts
  THEN [rec EXCEPT !.pc = "connect", !.conn = 0]
  ELSE [rec EXCEPT !.pc = "done", !.e = exc,
                   !.outcome = IF exc.type = "Error" THEN OnError(rec.op, exc.msg)
                               ELSE Raise(exc.type, exc.msg)]

\* An exception leaving the handler's try block: psycopg2.Error goes to the
\* except clause, anything else propagates to the runtime.
Unwind(rec, exc) ==
  [rec EXCEPT !.pc = "done", !.e = exc,
              !.outcome = IF exc.type = "Error" THEN OnError(rec.op, exc.msg)
                          ELSE Raise(exc.type, exc.msg)]

\* The connections and the committed data after an exception has left the
\* with-blocks of connection k: the cursor is closed, the transaction ended.
ConnsAfterRaise(k) ==
  [conns EXCEPT ![k] =
     [(IF TxOnExit(TRUE) = "commit" THEN Committed(@) ELSE RolledBack(@))
        EXCEPT !.cursor = "closed"]]

CommittedAfterRaise(k) ==
  IF TxOnExit(TRUE) = "commit" /\ conns[k].status = "begin"
  THEN CommitTx(committed, conns[k]) ELSE committed

\* cursor.execute succeeding on connection cn for call id: a transaction is
\* open, and holds the statement's writes.
Submit(cn, id, writes) ==
  [cn EXCEPT !.status = "begin",
             !.pending = IF writes THEN Append(@, id) ELSE @]

Init ==
  /\ env \in Envs
  /\ call = [c \in Slots |-> Idle]
  /\ conns = <<>>
  /\ committed = [i \in Ids |-> 0]
  /\ nextId = 1

\* The environment changes between or during calls.
SetEnv(name, v) ==
  /\ env[name] # v
  /\ env' = [env EXCEPT ![name] = v]
  /\ UNCHANGED <<call, conns, committed, nextId>>

\* The runtime invokes a handler; its first statement resolves the
\* configuration, outside the try block.
Invoke(c, op, q) ==
  /\ call[c].pc = "idle"
  /\ nextId <= MaxCalls
  /\ (op = "execute_query") <=> (q # 0)
  /\ LET r == get_db_config(env)
         rec == [Idle EXCEPT !.op = op, !.query = q, !.id = nextId,
                             !.table = IF op = "get_table_definition" THEN "t1" ELSE ""]
     IN call' = [call EXCEPT ![c] =
                   IF r.ok THEN [rec EXCEPT !.pc = "connect", !.cfg = r.config]
                   ELSE [rec EXCEPT !.pc = "done",
                                    !.outcome = Raise(r.exc.type, r.exc.msg)]]
  /\ nextId' = nextId + 1
  /\ UNCHANGED <<env, conns, committed>>

\* connect(**config) and conn.cursor().
Connect(c) ==
  /\ call[c].pc = "connect"
  /\ call[c].nConnect < MaxAttempts
  /\ LET rec == [call[c] EXCEPT !.nConnect = @ + 1]
     IN \/ /\ conns' = Append(conns, NewConnection(rec.id))
           /\ call' = [call EXCEPT ![c] =
                         [rec EXCEPT !.pc = "execute", !.conn = Len(conns) + 1]]
        \/ /\ \E m \in ConnectErrors :
                call' = [call EXCEPT ![c] = Unwind(rec, DriverError(m))]
           /\ conns' = conns
  /\ UNCHANGED <<env, committed, nextId>>

\* A statement, commit or fetch raising exc inside the with-blocks.
RaiseInScope(c, rec, exc) ==
  /\ conns' = ConnsAfterRaise(ConnOf(c))
  /\ committed' = CommittedAfterRaise(ConnOf(c))
  /\ call' = [call EXCEPT ![c] = Unwind(rec, exc)]

\* execute_query: cursor.execute(query), then the SELECT branch (header and
\* rows from cursor.description and fetchall) or the way to conn.commit().
ExecuteQuery(c) ==
  /\ call[c].pc = "execute"
  /\ call[c].op = "execute_query"
  /\ call[c].nExecute < MaxAttempts
  /\ LET k == ConnOf(c)
         q == Queries[call[c].query]
         rec == [call[c] EXCEPT !.nExecute = @ + 1]
     IN \/ /\ q.valid /\ q.rows
           /\ \E rows \in QueryRowSets :
                /\ conns' = [conns EXCEPT ![k] = Submit(@, rec.id, q.writes)]
                /\ call' = [call EXCEPT ![c] =
                     IF IsSelectText(q.text)
                     THEN [rec EXCEPT !.pc = "exit", !.columns = QueryColumns,
                                      !.rows = rows,
                                      !.result = FormatRows(QueryColumns, rows)]
                     ELSE [rec EXCEPT !.pc = "commit", !.rowcount = Len(rows)]]
           /\ committed' = committed
        \/ /\ q.valid /\ ~q.rows /\ ~IsSelectText(q.text)
           /\ \E n \in RowCounts :
                /\ conns' = [conns EXCEPT ![k] = Submit(@, rec.id, q.writes)]
                /\ call' = [call EXCEPT ![c] =
                     [rec EXCEPT !.pc = "commit", !.rowcount = n]]
           /\ committed' = committed
        \/ \* cursor.description is None: iterating it raises TypeError
           /\ q.valid /\ ~q.rows /\ IsSelectText(q.text)
           /\ RaiseInScope(c, rec,
                [type |-> "TypeError", msg |-> "'NoneType' object is not iterable"])
        \/ /\ \E m \in StatementErrors :
                /\ q.valid \/ m = "syntax error"
                /\ RaiseInScope(c, rec, DriverError(m))
  /\ UNCHANGED <<env, nextId>>

\* The handlers with one fixed statement: cursor.execute, fetchall or
\* fetchone, and the text built from the rows.
RunStatement(c) ==
  /\ call[c].pc = "execute"
  /\ call[c].op \in {"get_schemas", "get_tables", "list_tables_in_current_schema",
                     "get_table_definition", "get_current_user_and_schema"}
  /\ call[c].nExecute < MaxAttempts
  /\ LET k == ConnOf(c)
         op == call[c].op
         rec == [call[c] EXCEPT !.nExecute = @ + 1]
         Done(text) ==
           /\ conns' = [conns EXCEPT ![k] = Submit(@, rec.id, FALSE)]
           /\ call' = [call EXCEPT ![c] = [rec EXCEPT !.pc = "exit", !.result = text]]
           /\ committed' = committed
     IN \/ /\ op = "get_schemas"
           /\ \E rows \in SchemaRowSets :
                Done(FormatSchemas(rec.cfg.dbname[1], rows))
        \/ /\ op = "get_tables"
           /\ \E rows \in TableRowSets :
                Done(FormatTables(rec.cfg.dbname[1], rows))
        \/ /\ op = "list_tables_in_current_schema"
           /\ \E names \in TableLists :
                Done(FormatTableList(names))
        \/ /\ op = "get_table_definition"
           /\ \E rows \in ColumnRowSets :
                Done(FormatDefinition(rec.table, rows))
        \/ /\ op = "get_current_user_and_schema"
           /\ \E row \in IdentityRows :
                Done(FormatIdentity(row))
        \/ \E m \in StatementErrors : RaiseInScope(c, rec, DriverError(m))
  /\ UNCHANGED <<env, nextId>>

\* get_table_definitions: the statement listing the current schema's tables.
ListTables(c) ==
  /\ call[c].pc = "execute"
  /\ call[c].op = "get_table_definitions"
  /\ call[c].nExecute < MaxAttempts
  /\ LET k == ConnOf(c)
         rec == [call[c] EXCEPT !.nExecute = @ + 1]
     IN \/ /\ \E names \in TableLists :
                /\ conns' = [conns EXCEPT ![k] = Submit(@, rec.id, FALSE)]
                /\ call' = [call EXCEPT ![c] =
                     [rec EXCEPT !.pc = "columns", !.tables = names,
                                 !.all_defs = <<>>]]
           /\ committed' = committed
        \/ \E m \in StatementErrors : RaiseInScope(c, rec, DriverError(m))
  /\ UNCHANGED <<env, nextId>>

\* get_table_definitions: one turn of the loop over the tables (the column
\* query of the next table), or the return once the loop is over.
ColumnQuery(c) ==
  /\ call[c].pc = "columns"
  /\ LET k == ConnOf(c)
         rec == call[c]
     IN \/ /\ rec.tables # <<>>
           /\ \E rows \in ColumnRowSets :
                /\ conns' = [conns EXCEPT ![k] = Submit(@, rec.id, FALSE)]
                /\ call' = [call EXCEPT ![c] =
                     [rec EXCEPT !.tables = Tail(@),
                                 !.all_defs = Append(@,
                                    FormatDefinition(Head(rec.tables), rows))]]
           /\ committed' = committed
        \/ /\ rec.tables # <<>>
           /\ \E m \in StatementErrors : RaiseInScope(c, rec, DriverError(m))
        \/ /\ rec.tables = <<>>
           /\ call' = [call EXCEPT ![c] =
                [rec EXCEPT !.pc = "exit", !.result = Join("\n", rec.all_defs)]]
           /\ UNCHANGED <<conns, committed>>
  /\ UNCHANGED <<env, nextId>>

\* execute_query's conn.commit() for a text that does not begin with SELECT.
Commit(c) ==
  /\ call[c].pc = "commit"
  /\ LET k == ConnOf(c)
     IN \/ /\ committed' = CommitTx(committed, conns[k])
           /\ conns' = [conns EXCEPT ![k] = Committed(@)]
           /\ call' = [call EXCEPT ![c] =
                [@ EXCEPT !.pc = "exit", !.result = RowsAffected(call[c].rowcount)]]
        \/ \E m \in CommitErrors : RaiseInScope(c, call[c], DriverError(m))
  /\ UNCHANGED <<env, nextId>>

\* The with-blocks are left normally: the cursor is closed, the connection
\* context manager ends the transaction, and the handler returns its text.
\* A commit that fails raises psycopg2.Error into the except clause.
ExitScope(c) ==
  /\ call[c].pc = "exit"
  /\ LET k == ConnOf(c)
         how == TxOnExit(FALSE)
     IN \/ /\ conns[k].status = "begin"
           /\ committed' = IF how = "commit" THEN CommitTx(committed, conns[k])
                           ELSE committed
           /\ conns' = [conns EXCEPT ![k] = [Committed(@) EXCEPT !.cursor = "closed"]]
           /\ call' = [call EXCEPT ![c] =
                [@ EXCEPT !.pc = "done", !.outcome = Return(call[c].result)]]
        \/ /\ conns[k].status = "begin"
           /\ how = "commit"
           /\ \E m \in CommitErrors :
                call' = [call EXCEPT ![c] = Unwind(call[c], DriverError(m))]
           /\ conns' = [conns EXCEPT ![k] = [RolledBack(@) EXCEPT !.cursor = "closed"]]
           /\ committed' = committed
        \/ /\ conns[k].status # "begin"
           /\ conns' = [conns EXCEPT ![k].cursor = "closed"]
           /\ call' = [call EXCEPT ![c] =
                [@ EXCEPT !.pc = "done", !.outcome = Return(call[c].result)]]
           /\ committed' = committed
  /\ UNCHANGED <<env, nextId>>

\* The runtime takes the outcome; the handler's frame is gone.
Deliver(c) ==
  /\ call[c].pc = "done"
  /\ call' = [call EXCEPT ![c] = Idle]
  /\ UNCHANGED <<env, conns, committed, nextId>>

\* The interpreter reclaims a connection object no running handler holds,
\* which closes the connection; an open transaction is discarded.
Finalize(k) ==
  /\ conns[k].status # "closed"
  /\ \A c \in Slots : call[c].conn = k => call[c].pc = "done"
  /\ conns' = [conns EXCEPT ![k] =
       [@ EXCEPT !.status = "closed", !.pending = <<>>, !.cursor = "closed"]]
  /\ UNCHANGED <<env, call, committed, nextId>>

\* The handlers are coroutines that never await, so the event loop runs
\* one invocation at a time: slot "a".
Running == {"a"}

Next ==
  \/ \E name \in {"user", "password", "dbname", "port"} :
       \E v \in EnvValues(name) : SetEnv(name, v)
  \/ \E c \in Running, op \in Ops, q \in 0..Len(Queries) : Invoke(c, op, q)
  \/ \E c \in Running : Connect(c)
  \/ \E c \in Running : ExecuteQuery(c)
  \/ \E c \in Running : RunStatement(c)
  \/ \E c \in Running : ListTables(c)
  \/ \E c \in Running : ColumnQuery(c)
  \/ \E c \in Running : Commit(c)
  \/ \E c \in Running : ExitScope(c)
  \/ \E c \in Running : Deliver(c)
  \/ \E k \in DOMAIN conns : Finalize(k)

Spec == Init /\ [][Next]_vars

\* Two execute_query invocations interleaved at every driver call (a runtime
\* that runs handlers on several workers), in a complete environment.
InitInterleaved ==
  /\ env = ImportEnv
  /\ call = [c \in Slots |-> Idle]
  /\ conns = <<>>
  /\ committed = [i \in Ids |-> 0]
  /\ nextId = 1

NextInterleaved ==
  \/ \E c \in Slots, q \in 1..Len(Queries) : Invoke(c, "execute_query", q)
  \/ \E c \in Slots : Connect(c)
  \/ \E c \in Slots : ExecuteQuery(c)
  \/ \E c \in Slots : Commit(c)
  \/ \E c \in Slots : ExitScope(c)
  \/ \E c \in Slots : Deliver(c)
  \/ \E k \in DOMAIN conns : Finalize(k)

SpecInterleaved == InitInterleaved /\ [][NextInterleaved]_vars

(* ------------------------------ claims -------------------------------- *)

\* A required variable is absent or empty in environment e.
MissingRequired(e) ==
  \/ e.user \in {Unset, SetTo("")}
  \/ e.password \in {Unset, SetTo("")}
  \/ e.dbname \in {Unset, SetTo("")}

\* OPENGAUSS_PORT is set to something int() rejects.
BadPort(e) == e.port # Unset /\ \E i \in DOMAIN e.port[1] : e.port[1][i] \notin Digits

\* Slot c takes an invocation in this step.
Invoked(c) == call[c].pc = "idle" /\ call'[c].pc # "idle"

Ended(c) == call[c].pc = "done"

\* The writes the statements of the call in slot c make.
WritesOf(c) ==
  IF call[c].op = "execute_query" /\ Queries[call[c].query].writes THEN 1 ELSE 0

\* C1: a call of any operation made while OPENGAUSS_USER, OPENGAUSS_PASSWORD
\* or OPENGAUSS_DBNAME is absent or empty ends at once with the ValueError of
\* get_db_config (its "Missing required database configuration" whenever the
\* port parses), and that call makes no connection attempt.
C1_ConfigErrorBeforeConnect ==
  [][\A c \in Slots :
       /\ (Invoked(c) /\ MissingRequired(env)) =>
            /\ call'[c].pc = "done"
            /\ call'[c].outcome.kind = "raise"
            /\ call'[c].outcome.exc = "ValueError"
            /\ ~BadPort(env) =>
                 call'[c].outcome.text = "Missing required database configuration"
            /\ call'[c].nConnect = 0
            /\ call'[c].conn = 0
            /\ conns' = conns
       /\ (call[c].outcome.exc = "ValueError" /\ call'[c].pc # "idle") =>
            call'[c].nConnect = 0 /\ call'[c].conn = 0]_vars

C1_Witness ==
  \E c \in Slots, op \in Ops :
    /\ Ended(c)
    /\ call[c].op = op
    /\ call[c].outcome = Raise("ValueError", "Missing required database configuration")
    /\ call[c].nConnect = 0

\* C2: once a handler has ended, the connection it opened is closed, and
\* when no call is in flight no connection is open.
C2_ConnectionClosedAtExit ==
  /\ \A c \in Slots :
       (Ended(c) /\ call[c].conn # 0) => conns[call[c].conn].status = "closed"
  /\ (\A c \in Slots : call[c].pc = "idle") =>
       \A k \in DOMAIN conns : conns[k].status = "closed"

\* C3: every execute_query invocation ends by returning a string.
C3_ExecuteQueryAlwaysReturns ==
  \A c \in Slots :
    (Ended(c) /\ call[c].op = "execute_query") => call[c].outcome.kind = "return"

\* C4: in execute_query a psycopg2.Error raised by connect, by the
\* statement or by a commit is answered with exactly
\* "Error executing query: <message>": returned, not raised, and with no
\* header or data line of the statement in it.
C4_DriverErrorReturnedAsText ==
  \A c \in Slots :
    (Ended(c) /\ call[c].op = "execute_query" /\ call[c].e.type = "Error") =>
      /\ call[c].outcome.kind = "return"
      /\ call[c].outcome.exc = ""
      /\ call[c].outcome.text = "Error executing query: " \o call[c].e.msg

C4_Witness ==
  \E c \in Slots :
    /\ Ended(c)
    /\ call[c].op = "execute_query"
    /\ call[c].e = DriverError("server closed the connection")
    /\ call[c].rows # <<>>
    /\ call[c].outcome.text = "Error executing query: server closed the connection"

\* C5: in every operation but execute_query a psycopg2.Error raised at
\* connect or at any statement ends the call with RuntimeError
\* "Database error: <message>" and no content, also when
\* get_table_definitions had already built blocks; every call ends with
\* either a text or an error.
C5_DriverErrorRaised ==
  \A c \in Slots :
    /\ (Ended(c) /\ call[c].op # "execute_query" /\ call[c].e.type = "Error") =>
         call[c].outcome = Raise("RuntimeError", "Database error: " \o call[c].e.msg)
    /\ Ended(c) =>
         \/ call[c].outcome.kind = "return" /\ call[c].outcome.exc = ""
         \/ call[c].outcome.kind = "raise" /\ call[c].outcome.exc # ""

C5_Witness ==
  \E c \in Slots :
    /\ Ended(c)
    /\ call[c].op = "get_table_definitions"
    /\ call[c].all_defs # <<>>
    /\ call[c].e.type = "Error"
    /\ call[c].outcome.kind = "raise"

\* C6: every call resolves its configuration from the environment as it is
\* at that call: it fails with ValueError exactly when a required variable is
\* missing (or the port is not a number) then, whatever earlier calls met,
\* and otherwise carries the values the environment holds then.
C6_ConfigReadAtEachCall ==
  [][\A c \in Slots :
       Invoked(c) =>
         IF MissingRequired(env) \/ BadPort(env)
         THEN call'[c].pc = "done" /\ call'[c].outcome.exc = "ValueError"
         ELSE /\ call'[c].pc = "connect"
              /\ call'[c].cfg.user = env.user
              /\ call'[c].cfg.password = env.password
              /\ call'[c].cfg.dbname = env.dbname
              /\ (env.port = Unset => call'[c].cfg.port = 5432)
              /\ (env.port = SetTo(<<"7", "0">>) => call'[c].cfg.port = 70)]_vars

\* The second call fails on its configuration after the first one connected.
C6_Witness ==
  \E c \in Slots :
    /\ call[c].id = 2
    /\ call[c].outcome.exc = "ValueError"
    /\ Len(conns) = 1
    /\ conns[1].owner = 1

\* The text execute_query returns for a result set: the header line, then a
\* line per row in the order fetched.
TableText(columns, rows) ==
  Join("\n", <<Join(",", columns)>>
             \o [i \in DOMAIN rows |->
                   Join(",", [j \in DOMAIN rows[i] |-> Str(rows[i][j])])])

\* C7: an execute_query call whose statement, and commit, met no driver
\* error returns the header and the rows when its text, trimmed and
\* upper-cased, begins with SELECT, and otherwise has committed and returns
\* "Query executed successfully. Rows affected: <n>".
C7_ResultShapeByPrefix ==
  \A c \in Slots :
    (Ended(c) /\ call[c].op = "execute_query" /\ call[c].conn # 0
       /\ call[c].e.type # "Error") =>
      IF startswith(upper(strip(Queries[call[c].query].text)), SELECT)
      THEN call[c].outcome = Return(TableText(call[c].columns, call[c].rows))
      ELSE /\ call[c].outcome = Return(RowsAffected(call[c].rowcount))
           /\ committed[call[c].id] = WritesOf(c)

\* C8: two interleaved execute_query calls never use one connection, every
\* transaction holds only its owner's writes, and whether a call's writes
\* are committed follows from that call alone.
C8_NoSharedConnection ==
  /\ \A c1, c2 \in Slots :
       (c1 # c2 /\ call[c1].conn # 0 /\ call[c2].conn # 0) =>
         call[c1].conn # call[c2].conn
  /\ \A c \in Slots :
       call[c].conn # 0 => conns[call[c].conn].owner = call[c].id
  /\ \A k \in DOMAIN conns :
       \A i \in DOMAIN conns[k].pending : conns[k].pending[i] = conns[k].owner
  /\ \A c \in Slots :
       (Ended(c) /\ call[c].conn # 0) =>
         committed[call[c].id] = IF call[c].e.type = "" THEN WritesOf(c) ELSE 0

\* Both calls hold an open transaction with a write of their own.
C8_Witness ==
  /\ \A c \in Slots : call[c].pc \in {"commit", "exit"} /\ call[c].conn # 0
  /\ \A c \in Slots : conns[call[c].conn].pending = <<call[c].id>>

\* C9: a call connects at most once and submits its statement at most once,
\* also after a failure; a writing execute_query that succeeds has applied
\* its statement exactly once.
C9_NoRetry ==
  \A c \in Slots :
    /\ call[c].nConnect <= 1
    /\ call[c].nExecute <= 1
    /\ (Ended(c) /\ call[c].conn # 0 /\ call[c].e.type = "") =>
         committed[call[c].id] = WritesOf(c)
    /\ call[c].id # 0 => committed[call[c].id] <= 1

C9_Witness ==
  \E c \in Slots :
    /\ Ended(c)
    /\ call[c].op = "execute_query"
    /\ call[c].e.type = "Error"
    /\ call[c].conn # 0
    /\ call[c].nConnect = 1
    /\ call[c].nExecute = 1

\* C10: a call whose body and scope exit raised nothing has committed its
\* transaction when the handler ends, whether execute_query classified the
\* text as SELECT or not; a call in which something was raised inside the
\* connection scope has committed nothing, and no transaction outlives its
\* handler.
C10_CommitOnSuccessOnly ==
  /\ \A c \in Slots :
       (Ended(c) /\ call[c].conn # 0) =>
         /\ conns[call[c].conn].pending = <<>>
         /\ conns[call[c].conn].status # "begin"
         /\ call[c].e.type = "" => committed[call[c].id] = WritesOf(c)
         /\ call[c].e.type # "" => committed[call[c].id] = 0
  /\ \A k \in DOMAIN conns :
       (\A c \in Slots : call[c].conn = k => Ended(c)) => conns[k].pending = <<>>

\* A SELECT-prefixed text that writes was committed by the scope exit.
C10_Witness ==
  \E c \in Slots :
    /\ Ended(c)
    /\ call[c].op = "execute_query"
    /\ IsSelectText(Queries[call[c].query].text)
    /\ Queries[call[c].query].writes
    /\ call[c].outcome.kind = "return"
    /\ call[c].e.type = ""
    /\ committed[call[c].id] = 1

====
